---- MODULE Spec2Model ----
(***************************************************************************)
(* Connection lifecycle of WebRTCPublisher (src/publisher.py).             *)
(*                                                                         *)
(* The publisher runs on one asyncio event loop.  Every POST /offer and    *)
(* POST /answer request is a task; a task runs without interruption from   *)
(* one await to the next, so each action below is the code between two     *)
(* consecutive awaits of one handler.  The media engine (aiortc) and the   *)
(* video decoder are outside the repository: each of their calls either    *)
(* returns or raises, chosen nondeterministically.  main() only calls      *)
(* run(), so the requests are the only callers of the lifecycle;           *)
(* create_offer has no caller and is not an action here.                   *)
(***************************************************************************)
EXTENDS Integers, Sequences, FiniteSets, TLC

\* Bounds of the model.
NumHandlers == 2
MaxOffers == 2
MaxAnswers == 1

\* self.pc = None / self.video_track = None
None == 0

Handlers == 1..NumHandlers
\* Every POST /offer allocates at most one RTCPeerConnection.
Conns == 1..MaxOffers

OfferBodies == {"valid", "missing_sdp", "missing_type", "malformed"}
AnswerBodies == {"valid", "missing_sdp", "malformed"}
CloseOutcomes == {"returned", "raised_closed", "raised_open"}
CreateOutcomes == {"ok", "alloc_fail", "track_fail"}

VARIABLES
    pc,           \* self.pc: None or the connection referenced
    video_track,  \* self.video_track: None or the track (named by its connection)
    lockHolder,   \* self._connection_lock: None or the handler holding it
    lockWaiters,  \* the lock's FIFO of waiting handlers
    conns,        \* every RTCPeerConnection ever allocated, by number
    nextConn,     \* the number the next RTCPeerConnection() gets
    pos,          \* each handler's position (the await it is suspended in)
    localPc,      \* the connection the handler's pending engine call is on
    out,          \* the response returned by the step just taken, if any
    resetLog,     \* the _reset_connection call in progress or just completed
    resetOf,      \* per connection: how far the reset of that session has got
    offers,       \* POST /offer requests received so far
    answers       \* POST /answer requests received so far

vars == <<pc, video_track, lockHolder, lockWaiters, conns, nextConn, pos,
          localPc, out, resetLog, resetOf, offers, answers>>

NoConn == [state |-> "unalloc", observers |-> FALSE, track |-> "none",
           remote |-> "none", local |-> "none"]

NoResp == [route |-> "none", handler |-> None, status |-> 0, ctype |-> "none",
           body |-> "none", cause |-> "none"]

NoReset == [phase |-> "none", startPc |-> None, startTrack |-> None,
            endPc |-> None, endTrack |-> None, closeRaised |-> FALSE,
            raised |-> FALSE]

\* WebRTCPublisher.__init__
Init ==
    /\ pc = None
    /\ video_track = None
    /\ lockHolder = None
    /\ lockWaiters = <<>>
    /\ conns = [c \in Conns |-> NoConn]
    /\ nextConn = 1
    /\ pos = [p \in Handlers |-> "idle"]
    /\ localPc = [p \in Handlers |-> None]
    /\ out = NoResp
    /\ resetLog = NoReset
    /\ resetOf = [c \in Conns |-> "none"]
    /\ offers = 0
    /\ answers = 0

VARIABLES
    allocFailed,  \* whether RTCPeerConnection() has raised in an earlier request
    fs,           \* a SideBySideVideoTrack (the frame source), when one is followed
    tf,           \* a call of VideoReceiver.process_3d_frame, when one is followed
    rx            \* a VideoReceiver's connection and receive loop, when followed

allVars == <<vars, allocFailed, fs, tf, rx>>

\* A part that is not being followed.
Off == [on |-> FALSE]

\* A step of a request handler leaves the frame source and the receiver alone.
HandlerStep ==
    /\ allocFailed' = (allocFailed \/ out'.cause = "alloc")
    /\ UNCHANGED <<fs, tf, rx>>

\* A step that returns no response and is outside _reset_connection.
NoOutput == out' = NoResp
KeepReset == resetLog' = IF resetLog.phase = "done" THEN NoReset ELSE resetLog

----------------------------------------------------------------------------
\* asyncio.Lock

LockAvailable_NoLock == TRUE

\* Lock.acquire() takes the lock at once only when it is free and nobody waits.
LockAvailable == lockHolder = None /\ lockWaiters = <<>>

NextHolder_Nobody == None

\* Lock.release(): the lock passes to the first waiter, if any.
NextHolder == IF lockWaiters = <<>> THEN None ELSE Head(lockWaiters)

\* offer_handler returns: the response goes out and `async with` releases the lock.
OfferReturn(p, status, ctype, b, cause) ==
    /\ out' = [route |-> "offer", handler |-> p, status |-> status,
               ctype |-> ctype, body |-> b, cause |-> cause]
    /\ lockHolder' = NextHolder
    /\ lockWaiters' = IF lockWaiters = <<>> THEN <<>> ELSE Tail(lockWaiters)
    /\ pos' = [q \in Handlers |->
                 IF q = p THEN "idle"
                 ELSE IF q = NextHolder /\ pos[q] = "waitlock" THEN "json"
                 ELSE pos[q]]
    /\ localPc' = [localPc EXCEPT ![p] = None]

\* except Exception as e: return web.Response(status=500, text=str(e))
OfferFail(p, cause) ==
    OfferReturn(p, 500, "text/plain", "str_e", cause)

----------------------------------------------------------------------------
\* POST /offer: offer_handler, with _create_new_connection and _reset_connection

\* async with self._connection_lock: enter at once, or queue behind the holder.
OfferArrive(p) ==
    /\ pos[p] = "idle"
    /\ offers < MaxOffers
    /\ offers' = offers + 1
    /\ IF LockAvailable
       THEN /\ lockHolder' = p
            /\ pos' = [pos EXCEPT ![p] = "json"]
            /\ UNCHANGED lockWaiters
       ELSE /\ lockWaiters' = Append(lockWaiters, p)
            /\ pos' = [pos EXCEPT ![p] = "waitlock"]
            /\ UNCHANGED lockHolder
    /\ NoOutput /\ KeepReset
    /\ UNCHANGED <<pc, video_track, conns, nextConn, localPc, resetOf, answers>>
    /\ HandlerStep

ResetNeeded_Never == FALSE

\* if self.pc is not None:
ResetNeeded == pc # None

TrackAfterReset_Kept == video_track

\* if self.video_track is not None: self.video_track = None
TrackAfterReset == None

\* _reset_connection up to its first await: pc.close() when a session exists,
\* else the grace sleep.
BeginReset(p) ==
    /\ resetLog' = [NoReset EXCEPT !.phase = "running", !.startPc = pc,
                                   !.startTrack = video_track]
    /\ IF ResetNeeded
       THEN /\ conns' = [conns EXCEPT ![pc].state = "closing"]
            /\ resetOf' = [resetOf EXCEPT ![pc] = "closing"]
            /\ localPc' = [localPc EXCEPT ![p] = pc]
            /\ pos' = [pos EXCEPT ![p] = "close"]
            /\ UNCHANGED <<pc, video_track>>
       ELSE /\ video_track' = TrackAfterReset
            /\ pos' = [pos EXCEPT ![p] = "sleep"]
            /\ UNCHANGED <<pc, conns, resetOf, localPc>>
    /\ NoOutput
    /\ UNCHANGED <<lockHolder, lockWaiters>>

\* await request.json(), the validation of the body, then _create_new_connection
\* up to the first await of _reset_connection.
OfferReadJson(p, b) ==
    /\ pos[p] = "json"
    /\ IF b # "valid"
       THEN /\ OfferFail(p, b)
            /\ KeepReset
            /\ UNCHANGED <<pc, video_track, conns, resetOf>>
       ELSE BeginReset(p)
    /\ UNCHANGED <<nextConn, offers, answers>>
    /\ HandlerStep

\* The engine's connection after close(): closed when it returned; when it
\* raised, the engine may or may not have torn the connection down.
ConnAfterClose(outcome) ==
    IF outcome = "raised_open" THEN "open" ELSE "closed"

\* except Exception as e: logger.warning(...)
CloseCaught(outcome) == TRUE

PcAfterClose_KeptOnRaise(outcome) == IF outcome = "returned" THEN None ELSE pc

\* finally: self.pc = None
PcAfterClose(outcome) == None

\* pc.close() returns or raises; then the rest of _reset_connection up to the
\* grace sleep.
OfferCloseDone(p, outcome) ==
    /\ pos[p] = "close"
    /\ conns' = [conns EXCEPT ![localPc[p]].state = ConnAfterClose(outcome)]
    /\ pc' = PcAfterClose(outcome)
    /\ IF outcome # "returned" /\ ~CloseCaught(outcome)
       THEN /\ resetLog' = [resetLog EXCEPT !.phase = "done",
                                            !.closeRaised = TRUE,
                                            !.raised = TRUE,
                                            !.endPc = pc',
                                            !.endTrack = video_track]
            /\ OfferFail(p, "close")
            /\ UNCHANGED <<video_track, resetOf>>
       ELSE /\ resetLog' = [resetLog EXCEPT !.closeRaised = (outcome # "returned")]
            /\ resetOf' = [resetOf EXCEPT ![localPc[p]] = "grace"]
            /\ video_track' = TrackAfterReset
            /\ pos' = [pos EXCEPT ![p] = "sleep"]
            /\ NoOutput
            /\ UNCHANGED <<lockHolder, lockWaiters, localPc>>
    /\ UNCHANGED <<nextConn, offers, answers>>
    /\ HandlerStep

\* The grace sleep ends and _reset_connection returns; _create_new_connection
\* runs to its end without an await, and offer_handler goes on to its
\* setRemoteDescription call.
OfferSleepDone(p, outcome) ==
    /\ pos[p] = "sleep"
    /\ resetLog' = [resetLog EXCEPT !.phase = "done", !.endPc = pc,
                                    !.endTrack = video_track]
    /\ resetOf' = [c \in Conns |->
                     IF c = localPc[p] /\ resetOf[c] = "grace" THEN "done"
                     ELSE resetOf[c]]
    /\ CASE outcome = "alloc_fail" ->
              \* RTCPeerConnection() raises
              /\ OfferFail(p, "alloc")
              /\ UNCHANGED <<pc, video_track, conns, nextConn>>
         [] outcome = "track_fail" ->
              \* SideBySideVideoTrack(self.video_path) raises
              /\ pc' = nextConn
              /\ conns' = [conns EXCEPT ![nextConn] =
                             [NoConn EXCEPT !.state = "open", !.observers = TRUE]]
              /\ nextConn' = nextConn + 1
              /\ OfferFail(p, "track")
              /\ UNCHANGED video_track
         [] outcome = "ok" ->
              /\ pc' = nextConn
              /\ video_track' = nextConn
              /\ conns' = [conns EXCEPT ![nextConn] =
                             [NoConn EXCEPT !.state = "open", !.observers = TRUE,
                                            !.track = "sendonly"]]
              /\ nextConn' = nextConn + 1
              /\ localPc' = [localPc EXCEPT ![p] = nextConn]
              /\ pos' = [pos EXCEPT ![p] = "setRemote"]
              /\ NoOutput
              /\ UNCHANGED <<lockHolder, lockWaiters>>
    /\ UNCHANGED <<offers, answers>>
    /\ HandlerStep

\* await pc.setRemoteDescription(offer) returns or raises.
OfferSetRemoteDone(p, ok) ==
    /\ pos[p] = "setRemote"
    /\ IF ok
       THEN /\ conns' = [conns EXCEPT ![localPc[p]].remote = "offer"]
            /\ pos' = [pos EXCEPT ![p] = "createAnswer"]
            /\ NoOutput
            /\ UNCHANGED <<lockHolder, lockWaiters, localPc>>
       ELSE /\ OfferFail(p, "setRemote")
            /\ UNCHANGED conns
    /\ KeepReset
    /\ UNCHANGED <<pc, video_track, nextConn, resetOf, offers, answers>>
    /\ HandlerStep

\* await pc.createAnswer() returns or raises.
OfferCreateAnswerDone(p, ok) ==
    /\ pos[p] = "createAnswer"
    /\ IF ok
       THEN /\ pos' = [pos EXCEPT ![p] = "setLocal"]
            /\ NoOutput
            /\ UNCHANGED <<lockHolder, lockWaiters, localPc>>
       ELSE OfferFail(p, "createAnswer")
    /\ KeepReset
    /\ UNCHANGED <<pc, video_track, conns, nextConn, resetOf, offers, answers>>
    /\ HandlerStep

\* json.dumps({"sdp": pc.localDescription.sdp, "type": pc.localDescription.type})
AnswerJson(desc) ==
    IF desc = "answer" THEN "json{sdp,type:answer}" ELSE "json{sdp,type:other}"

\* await pc.setLocalDescription(answer) returns or raises; on return the
\* handler answers with the local description.
OfferSetLocalDone(p, ok) ==
    /\ pos[p] = "setLocal"
    /\ IF ok
       THEN /\ conns' = [conns EXCEPT ![localPc[p]].local = "answer"]
            /\ OfferReturn(p, 200, "application/json",
                           AnswerJson(conns'[localPc[p]].local), "none")
       ELSE /\ OfferFail(p, "setLocal")
            /\ UNCHANGED conns
    /\ KeepReset
    /\ UNCHANGED <<pc, video_track, nextConn, resetOf, offers, answers>>
    /\ HandlerStep

----------------------------------------------------------------------------
\* POST /answer: answer_handler, with handle_answer

\* answer_handler starts; it does not take the lock.
AnswerArrive(p) ==
    /\ pos[p] = "idle"
    /\ answers < MaxAnswers
    /\ answers' = answers + 1
    /\ pos' = [pos EXCEPT ![p] = "ansJson"]
    /\ NoOutput /\ KeepReset
    /\ UNCHANGED <<pc, video_track, lockHolder, lockWaiters, conns, nextConn,
                   localPc, resetOf, offers>>
    /\ HandlerStep

\* answer_handler returns.
AnswerReturn(p, status, b, cause) ==
    /\ out' = [route |-> "answer", handler |-> p, status |-> status,
               ctype |-> "text/plain", body |-> b, cause |-> cause]
    /\ pos' = [pos EXCEPT ![p] = "idle"]
    /\ localPc' = [localPc EXCEPT ![p] = None]

\* await request.json(); if self.pc is not None: handle_answer(params["sdp"])
\* up to its setRemoteDescription call; else return web.Response(text="OK").
AnswerReadJson(p, b) ==
    /\ pos[p] = "ansJson"
    /\ CASE b = "malformed" ->
              AnswerReturn(p, 500, "str_e", "malformed")
         [] b # "malformed" /\ pc = None ->
              AnswerReturn(p, 200, "OK", "no_session")
         [] b = "missing_sdp" /\ pc # None ->
              AnswerReturn(p, 500, "str_e", "missing_sdp")
         [] b = "valid" /\ pc # None ->
              /\ localPc' = [localPc EXCEPT ![p] = pc]
              /\ pos' = [pos EXCEPT ![p] = "ansSetRemote"]
              /\ NoOutput
    /\ KeepReset
    /\ UNCHANGED <<pc, video_track, lockHolder, lockWaiters, conns, nextConn,
                   resetOf, offers, answers>>
    /\ HandlerStep

\* await self.pc.setRemoteDescription(answer) returns or raises.
AnswerSetRemoteDone(p, ok) ==
    /\ pos[p] = "ansSetRemote"
    /\ IF ok
       THEN /\ conns' = [conns EXCEPT ![localPc[p]].remote = "answer"]
            /\ AnswerReturn(p, 200, "OK", "none")
       ELSE /\ AnswerReturn(p, 500, "str_e", "setRemote")
            /\ UNCHANGED conns
    /\ KeepReset
    /\ UNCHANGED <<pc, video_track, lockHolder, lockWaiters, nextConn, resetOf,
                   offers, answers>>
    /\ HandlerStep

----------------------------------------------------------------------------

Next ==
    \E p \in Handlers :
        \/ OfferArrive(p)
        \/ \E b \in OfferBodies : OfferReadJson(p, b)
        \/ \E o \in CloseOutcomes : OfferCloseDone(p, o)
        \/ \E o \in CreateOutcomes : OfferSleepDone(p, o)
        \/ \E ok \in BOOLEAN : OfferSetRemoteDone(p, ok)
        \/ \E ok \in BOOLEAN : OfferCreateAnswerDone(p, ok)
        \/ \E ok \in BOOLEAN : OfferSetLocalDone(p, ok)
        \/ AnswerArrive(p)
        \/ \E b \in AnswerBodies : AnswerReadJson(p, b)
        \/ \E ok \in BOOLEAN : AnswerSetRemoteDone(p, ok)

\* The publisher serving requests, from construction.
PublisherInit ==
    /\ Init
    /\ allocFailed = FALSE
    /\ fs = Off
    /\ tf = Off
    /\ rx = Off

Spec == PublisherInit /\ [][Next]_allVars

\* What the event loop and the engine owe an offer request that is being
\* handled: request.json() completes, every awaited engine call returns or
\* raises, and asyncio.sleep returns.  Nothing obliges a request to arrive.
OfferProgress(p) ==
    \/ \E b \in OfferBodies : OfferReadJson(p, b)
    \/ \E o \in CloseOutcomes : OfferCloseDone(p, o)
    \/ \E o \in CreateOutcomes : OfferSleepDone(p, o)
    \/ \E ok \in BOOLEAN : OfferSetRemoteDone(p, ok)
    \/ \E ok \in BOOLEAN : OfferCreateAnswerDone(p, ok)
    \/ \E ok \in BOOLEAN : OfferSetLocalDone(p, ok)

\* The offer route alone: answer_handler takes no lock and changes neither
\* the position nor the response of an offer request.
OfferNext ==
    \E p \in Handlers :
        \/ OfferArrive(p)
        \/ OfferProgress(p)

\* The publisher serving offer requests on an event loop that keeps running.
OfferLiveSpec ==
    /\ PublisherInit
    /\ [][OfferNext]_allVars
    /\ \A p \in Handlers : WF_allVars(OfferProgress(p))

----------------------------------------------------------------------------
(***************************************************************************)
(* SideBySideVideoTrack (src/publisher.py): the frame source.              *)
(*                                                                         *)
(* The wall clock is counted in ticks, TicksPerSecond to the second; the   *)
(* frame rate is a whole number of frames per second.  recv has no await,  *)
(* so one call is one step; the clock may advance between its readings of  *)
(* time.time().  Each decoder read succeeds or fails nondeterministically. *)
(***************************************************************************)

\* Bounds of the frame source.
TicksPerSecond == 2
MaxFps == 2
MaxFrames == 3
MaxTime == 6

\* av_frame.pts is counted on a 90 kHz clock.
ClockRate == 90000

\* self.start_time = None
NoTime == -1

NoFrame == [result |-> "none", elapsed |-> 0, restarted |-> FALSE,
            target |-> 0, seeks |-> <<>>, index |-> 0, pts |-> 0,
            readFailed |-> FALSE, prevPts |-> NoTime, start |-> NoTime,
            clock |-> 0]

\* A video file about to be handed to SideBySideVideoTrack(video_path).
FsNew == [on |-> TRUE, phase |-> "new", err |-> "none", fps |-> 0,
          frame_count |-> 0, start_time |-> NoTime, now |-> 0,
          last |-> NoFrame]

FrameInit ==
    /\ Init
    /\ allocFailed = FALSE
    /\ tf = Off
    /\ rx = Off
    /\ fs = FsNew

\* SideBySideVideoTrack.__init__: the file opens or not, and the capture
\* reports its frame rate (0 when it cannot) and its frame count.
FsConstruct(opened, fps, count) ==
    /\ fs.phase = "new"
    /\ fs' = IF ~opened
               THEN [fs EXCEPT !.phase = "failed", !.err = "ValueError"]
             ELSE IF fps = 0
               \* self.frame_duration = 1.0 / self.fps
               THEN [fs EXCEPT !.phase = "failed", !.err = "ZeroDivisionError",
                               !.fps = fps, !.frame_count = count]
             ELSE [fs EXCEPT !.phase = "ready", !.fps = fps,
                             !.frame_count = count]
    /\ UNCHANGED <<vars, allocFailed, tf, rx>>

\* The wall clock advances between two calls of recv.
FsTick ==
    /\ fs.phase = "ready"
    /\ fs.now < MaxTime
    /\ fs' = [fs EXCEPT !.now = fs.now + 1]
    /\ UNCHANGED <<vars, allocFailed, tf, rx>>

\* target_frame = int(current_time * self.fps)
TargetFrame(elapsed, fps) == (elapsed * fps) \div TicksPerSecond

LoopNeeded_Late(target, count) == target > count

\* if target_frame >= self.frame_count:
LoopNeeded(target, count) == target >= count

TargetAfterLoop_Kept(target) == target

\* target_frame = 0
TargetAfterLoop(target) == 0

\* av_frame.pts = int(target_frame * self.frame_duration * 90000)
Pts(target, fps) == (target * ClockRate) \div fps

\* recv: j1, j2 are the ticks that pass between its readings of the clock;
\* ok1 is the read at the target index, ok2 the read after the seek to 0.
FsRecv(j1, j2, ok1, ok2) ==
    /\ fs.phase = "ready"
    /\ fs.now + j1 + j2 <= MaxTime
    /\ LET start0  == IF fs.start_time = NoTime THEN fs.now ELSE fs.start_time
           t1      == fs.now + j1
           elapsed == t1 - start0
           raw     == TargetFrame(elapsed, fs.fps)
           loop    == LoopNeeded(raw, fs.frame_count)
           t2      == t1 + j2
           target  == IF loop THEN TargetAfterLoop(raw) ELSE raw
           seeks   == (IF loop THEN <<0>> ELSE <<>>) \o <<target>>
                      \o (IF ok1 THEN <<>> ELSE <<0>>)
           gotOne  == ok1 \/ ok2
           \* the timestamp of the frame last emitted in the running cycle
           prev    == IF fs.last.result = "frame" THEN fs.last.pts
                      ELSE IF fs.last.restarted THEN NoTime
                      ELSE fs.last.prevPts
       IN  fs' = [fs EXCEPT
                    !.now = IF loop THEN t2 ELSE t1,
                    !.start_time = IF loop THEN t2 ELSE start0,
                    !.last = [result |-> IF gotOne THEN "frame" ELSE "raised",
                              elapsed |-> elapsed,
                              restarted |-> loop,
                              target |-> target,
                              seeks |-> seeks,
                              index |-> IF ok1 THEN target ELSE 0,
                              pts |-> IF gotOne THEN Pts(target, fs.fps) ELSE 0,
                              readFailed |-> ~ok1,
                              prevPts |-> IF loop THEN NoTime ELSE prev,
                              start |-> start0,
                              clock |-> IF loop THEN t2 ELSE t1]]
    /\ UNCHANGED <<vars, allocFailed, tf, rx>>

FrameNext ==
    \/ \E opened \in BOOLEAN, fps \in 0..MaxFps, count \in 0..MaxFrames :
          FsConstruct(opened, fps, count)
    \/ FsTick
    \/ \E j1, j2 \in 0..1, ok1, ok2 \in BOOLEAN : FsRecv(j1, j2, ok1, ok2)

FrameSpec == FrameInit /\ [][FrameNext]_allVars

----------------------------------------------------------------------------
(***************************************************************************)
(* VideoReceiver.process_3d_frame (src/receiver.py): the stereo transform. *)
(*                                                                         *)
(* A frame is its shape and its pixels, row by row, each pixel <<r, g, b>>;*)
(* rows and columns are counted from 0 as in the source.  Small frames are *)
(* followed pixel by pixel; frames of real sizes are followed by shape     *)
(* only (px = <<>>).  The offset read from offset_var is a natural number. *)
(* cv2.resize is followed as the sampling of the nearest source pixel: the *)
(* geometry is the source's, the interpolation weights are left out.       *)
(***************************************************************************)

\* Bounds of the frames followed pixel by pixel.
MaxWidth == 4
MaxSmallOffset == 5

SmallHeights == {1, 2}
Colours == { <<200, 30, 30>>, <<30, 60, 220>> }

\* Frames and offsets followed by shape only.
Shapes == { <<640, 480>>, <<1280, 720>>, <<320, 240>>, <<160, 120>> }
RealOffsets == {5, 9, 10, 11, 20, 99, 100, 101, 150}

\* self.offset_slider = ttk.Scale(controls_frame, from_=10, to=100, ...)
MinOffset == 10
MaxOffset == 100

\* mode_combo: values=[...]
Modes == {"side_by_side_cross_eye", "side_by_side_parallel",
          "anaglyph_red_cyan", "anaglyph_green_magenta"}

\* np.zeros_like(frame): a pixel nothing was written to
Black == <<0, 0, 0>>

Frame(w, h, px) == [width |-> w, height |-> h, px |-> px]

SmallFrames ==
    UNION { { Frame(sz[1], sz[2], px) :
                 px \in [1..sz[2] -> [1..sz[1] -> Colours]] } :
            sz \in (1..MaxWidth) \X SmallHeights }

ShapeFrames == { Frame(sz[1], sz[2], <<>>) : sz \in Shapes }

PixelAt(f, y, x) == f.px[y + 1][x + 1]

\* frame[:, offset:, :]: the columns from offset on.
TrimLeft(w, offset) ==
    IF offset < w THEN [x0 |-> offset, width |-> w - offset]
    ELSE [x0 |-> w, width |-> 0]

\* frame[:, :-offset, :]: the columns before the last offset ones (none when
\* offset is 0, as -0 is 0).
TrimRight(w, offset) ==
    IF offset > 0 /\ offset < w THEN [x0 |-> 0, width |-> w - offset]
    ELSE [x0 |-> 0, width |-> 0]

\* new_height = int((width//2) * height / (width - offset)), for width # offset
NewHeight(w, h, offset) ==
    LET n == (w \div 2) * h
        d == w - offset
    IN  IF d > 0 THEN n \div d ELSE -(n \div (-d))

YOffset_RoundedUp(h, nh) == (h - nh + 1) \div 2

\* y_offset = (height - new_height) // 2
YOffset(h, nh) == (h - nh) \div 2

\* side_by_side_cross_eye: left_half = frame[:, offset:, :] and
\* right_half = frame[:, :-offset, :]
CrossEyeCrops(w, offset) ==
    [left |-> TrimLeft(w, offset), right |-> TrimRight(w, offset)]

ParallelCrops_AsCrossEye(w, offset) == CrossEyeCrops(w, offset)

\* side_by_side_parallel: left_half = frame[:, :-offset, :] and
\* right_half = frame[:, offset:, :]
ParallelCrops(w, offset) ==
    [left |-> TrimRight(w, offset), right |-> TrimLeft(w, offset)]

\* What a side-by-side mode raises: the division by width - offset, then
\* cv2.resize of an empty crop or to an empty size, then the assignment of
\* the resized half to a slice of another shape (more rows than the frame, or
\* the wider right half of a frame of odd width).
SideBySideError(w, h, offset, crops) ==
    IF w = offset THEN "ZeroDivisionError"
    ELSE IF \/ crops.left.width = 0
            \/ crops.right.width = 0
            \/ w \div 2 = 0
            \/ NewHeight(w, h, offset) <= 0
      THEN "cv2.error"
    ELSE IF \/ NewHeight(w, h, offset) > h
            \/ (w - w \div 2 # w \div 2 /\ w \div 2 # 1)
      THEN "ValueError"
    ELSE "none"

\* cv2.resize: the source row or column sampled for row or column i of the
\* destination.
ResizeSource(srcLen, dstLen, i) == (i * srcLen) \div dstLen

Raised(e) == [status |-> "raised", err |-> e, width |-> 0, height |-> 0,
              new_height |-> 0, y_offset |-> 0, px |-> <<>>]

Returned(w, h, nh, y0, px) ==
    [status |-> "frame", err |-> "none", width |-> w, height |-> h,
     new_height |-> nh, y_offset |-> y0, px |-> px]

\* The side-by-side picture: each crop resized to (width//2, new_height) and
\* written at rows y_offset.. of its half of a black frame.
SideBySide(f, offset, crops) ==
    LET w  == f.width
        h  == f.height
        hw == w \div 2
        nh == NewHeight(w, h, offset)
        y0 == YOffset(h, nh)
        Crop(x) == IF x < hw THEN crops.left ELSE crops.right
        Col(x)  == IF x < hw THEN x ELSE IF hw = 1 THEN 0 ELSE x - hw
        Out(y, x) ==
            IF y < y0 \/ y >= y0 + nh THEN Black
            ELSE PixelAt(f, ResizeSource(h, nh, y - y0),
                         Crop(x).x0 + ResizeSource(Crop(x).width, hw, Col(x)))
    IN  IF SideBySideError(w, h, offset, crops) # "none"
        THEN Raised(SideBySideError(w, h, offset, crops))
        ELSE Returned(w, h, nh, y0,
                      IF f.px = <<>> THEN <<>>
                      ELSE [y \in 1..h |-> [x \in 1..w |-> Out(y - 1, x - 1)]])

\* cv2.cvtColor(frame, cv2.COLOR_RGB2GRAY) on one pixel:
\* 0.299 R + 0.587 G + 0.114 B in 14-bit fixed point.
Gray(p) == (4899 * p[1] + 9617 * p[2] + 1868 * p[3] + 8192) \div 16384

\* anaglyph[:, :, 0] = gray_frame; channels 1 and 2 = right_shifted
RedCyanPixel(g, shifted) == <<g, shifted, shifted>>

GreenMagentaPixel_BlueFromLeft(g, shifted) == <<shifted, g, g>>

\* anaglyph[:, :, 1] = gray_frame; channels 0 and 2 = right_shifted
GreenMagentaPixel(g, shifted) == <<shifted, g, shifted>>

\* An anaglyph: one channel from the gray frame, the others from the gray
\* frame shifted right by offset columns over zeros.
Anaglyph(f, offset, mode) ==
    LET w == f.width
        h == f.height
        GrayAt(y, x) == Gray(PixelAt(f, y, x))
        \* right_shifted[:, offset:] =
        \*     gray_frame[:, :-offset] if offset > 0 else gray_frame
        Shifted(y, x) == IF offset > 0
                         THEN IF x >= offset THEN GrayAt(y, x - offset) ELSE 0
                         ELSE GrayAt(y, x)
        Out(y, x) == IF mode = "anaglyph_red_cyan"
                     THEN RedCyanPixel(GrayAt(y, x), Shifted(y, x))
                     ELSE GreenMagentaPixel(GrayAt(y, x), Shifted(y, x))
    IN  Returned(w, h, h, 0,
                 IF f.px = <<>> THEN <<>>
                 ELSE [y \in 1..h |-> [x \in 1..w |-> Out(y - 1, x - 1)]])

\* process_3d_frame(frame) with mode_var and offset_var as given.
Process3dFrame(f, mode, offset) ==
    CASE mode = "side_by_side_cross_eye" ->
            SideBySide(f, offset, CrossEyeCrops(f.width, offset))
      [] mode = "side_by_side_parallel" ->
            SideBySide(f, offset, ParallelCrops(f.width, offset))
      [] mode \in {"anaglyph_red_cyan", "anaglyph_green_magenta"} ->
            Anaglyph(f, offset, mode)
      [] OTHER -> Returned(f.width, f.height, f.height, 0, f.px)

NoResult == [status |-> "none", err |-> "none", width |-> 0, height |-> 0,
             new_height |-> 0, y_offset |-> 0, px |-> <<>>]

\* A call about to be made on frame f with the widgets holding m and o.
TfCall(f, m, o) ==
    [on |-> TRUE, frame |-> f, mode |-> m, offset |-> o, res |-> NoResult]

\* The call of process_3d_frame is made.
TfProcess ==
    /\ tf.on
    /\ tf.res = NoResult
    /\ tf' = [tf EXCEPT !.res = Process3dFrame(tf.frame, tf.mode, tf.offset)]
    /\ UNCHANGED <<vars, allocFailed, fs, rx>>

TfNext == TfProcess

PixelInit ==
    /\ Init
    /\ allocFailed = FALSE
    /\ fs = Off
    /\ rx = Off
    /\ tf \in { TfCall(f, m, o) :
                  f \in SmallFrames, m \in Modes, o \in 0..MaxSmallOffset }

\* The transform on small frames, pixel by pixel.
PixelSpec == PixelInit /\ [][TfNext]_allVars

GeometryInit ==
    /\ Init
    /\ allocFailed = FALSE
    /\ fs = Off
    /\ rx = Off
    /\ tf \in { TfCall(f, m, o) :
                  f \in ShapeFrames, m \in Modes, o \in RealOffsets }

\* The transform on frames of real sizes, by shape.
GeometrySpec == GeometryInit /\ [][TfNext]_allVars

----------------------------------------------------------------------------
(***************************************************************************)
(* VideoReceiver (src/receiver.py): connecting, receiving, disconnecting.  *)
(*                                                                         *)
(* Two threads share the object: the Tk thread runs the button commands    *)
(* and the callbacks queued with root.after, the asyncio thread runs       *)
(* _connect_async, the receive loops and the scheduled pc.close().  A step *)
(* is one Tk callback, or the code of a coroutine between two awaits.      *)
(***************************************************************************)

\* Bounds of the receiver.
MaxConnects == 2
MaxDisconnects == 1
MaxRxFrames == 1

RxConns == 1..MaxConnects
RxTasks == 1..MaxConnects
PostOutcomes == {"200", "500", "error"}

NoTask == [pos |-> "none", on |-> None]

\* VideoReceiver.__init__ and setup_ui
RxNew ==
    [on |-> TRUE,
     pc |-> None,
     is_playing |-> FALSE,
     connect_btn |-> TRUE,
     disconnect_btn |-> FALSE,
     conns |-> [c \in RxConns |-> "unused"],
     nextConn |-> 1,
     tasks |-> [k \in RxTasks |-> NoTask],
     loops |-> [c \in RxConns |-> "none"],
     closing |-> {},
     gui |-> <<>>,
     clicks |-> 0,
     disconnects |-> 0,
     frames |-> 0,
     \* history: disconnect() has run and no connection was made since
     disconnected |-> FALSE,
     \* history: a frame was queued for display while disconnected
     lateDisplay |-> FALSE,
     \* history: connections taken out of self.pc open, with no close scheduled
     dropped |-> {}]

ReceiverInit ==
    /\ Init
    /\ allocFailed = FALSE
    /\ fs = Off
    /\ tf = Off
    /\ rx = RxNew

RxKeep == UNCHANGED <<vars, allocFailed, fs, tf>>

\* connect_to_publisher: the Connect button's command, with a URL entered.
RxClickConnect ==
    /\ rx.on
    /\ rx.connect_btn
    /\ rx.clicks < MaxConnects
    /\ rx' = [rx EXCEPT !.clicks = rx.clicks + 1,
                        !.tasks[rx.clicks + 1] = [pos |-> "start", on |-> None]]
    /\ RxKeep

\* except Exception as e: self.root.after(0, self._update_connection_status,
\* False, str(e)); self.pc is left as it is.
RxFail(r, k) ==
    [r EXCEPT !.tasks[k] = [pos |-> "done", on |-> None],
              !.gui = Append(r.gui, "status_fail")]

\* The connection a new RTCPeerConnection() replaces in self.pc, when it is
\* open and no close has been scheduled for it.
DroppedOpen(r) ==
    IF r.pc # None /\ r.conns[r.pc] = "open" /\ r.pc \notin r.closing
    THEN {r.pc} ELSE {}

\* _connect_async up to await self.pc.createOffer(); RTCPeerConnection()
\* returns or raises.
RxConnectStart(k, ok) ==
    /\ rx.on
    /\ rx.tasks[k].pos = "start"
    /\ LET r == [rx EXCEPT !.connect_btn = FALSE]
       IN  rx' = IF ok
                 THEN [r EXCEPT !.pc = rx.nextConn,
                                !.conns[rx.nextConn] = "open",
                                !.nextConn = rx.nextConn + 1,
                                !.dropped = rx.dropped \cup DroppedOpen(rx),
                                !.disconnected = FALSE,
                                !.tasks[k] = [pos |-> "createOffer",
                                              on |-> rx.nextConn]]
                 ELSE RxFail(r, k)
    /\ RxKeep

\* An awaited engine call of _connect_async returns or raises; on return the
\* coroutine goes on to its next await, reading self.pc again (None raises).
RxCallDone(k, from, to, ok) ==
    /\ rx.on
    /\ rx.tasks[k].pos = from
    /\ rx' = IF ok /\ rx.pc # None
             THEN [rx EXCEPT !.tasks[k] = [pos |-> to, on |-> rx.pc]]
             ELSE RxFail(rx, k)
    /\ RxKeep

\* await self.pc.createOffer()
RxCreateOfferDone(k, ok) == RxCallDone(k, "createOffer", "setLocal", ok)

\* await self.pc.setLocalDescription(offer), then session.post(...)
RxSetLocalDone(k, ok) == RxCallDone(k, "setLocal", "post", ok)

\* The POST of the offer: status 200 with an answer, another status, or an
\* error of the transport.
RxPostDone(k, outcome) == RxCallDone(k, "post", "setRemote", outcome = "200")

\* await self.pc.setRemoteDescription(answer): on return the connection has
\* fired "track", on_track has run handle_video_track up to its first
\* await track.recv() (self.is_playing = True), and the coroutine queues
\* _update_connection_status(True).
RxSetRemoteDone(k, ok) ==
    /\ rx.on
    /\ rx.tasks[k].pos = "setRemote"
    /\ rx' = IF ok
             THEN [rx EXCEPT !.tasks[k] = [pos |-> "done", on |-> None],
                             !.loops[rx.tasks[k].on] =
                                 IF @ = "none" THEN "waiting" ELSE @,
                             !.is_playing =
                                 rx.loops[rx.tasks[k].on] = "none" \/ @,
                             !.gui = Append(rx.gui, "status_ok")]
             ELSE RxFail(rx, k)
    /\ RxKeep

\* track.recv() returns a frame: process_3d_frame returns or raises, the
\* picture is queued for the Tk thread with no test of is_playing in between,
\* and then `while self.is_playing` is tested.
RxRecvFrame(c, ok) ==
    /\ rx.on
    /\ rx.loops[c] = "waiting"
    /\ rx.conns[c] = "open"
    /\ rx.frames < MaxRxFrames
    /\ rx' = IF ok
             THEN [rx EXCEPT
                     !.frames = rx.frames + 1,
                     !.gui = Append(rx.gui, "display"),
                     !.lateDisplay = rx.lateDisplay \/ rx.disconnected,
                     !.loops[c] = IF rx.is_playing THEN "waiting" ELSE "ended"]
             ELSE [rx EXCEPT !.frames = rx.frames + 1,
                             !.loops[c] = "ended",
                             !.is_playing = FALSE]
    /\ RxKeep

\* track.recv() raises (the track has ended): except ...: break, then
\* self.is_playing = False.
RxRecvError(c) ==
    /\ rx.on
    /\ rx.loops[c] = "waiting"
    /\ rx' = [rx EXCEPT !.loops[c] = "ended", !.is_playing = FALSE]
    /\ RxKeep

\* disconnect: the Disconnect button's command.
RxDisconnect ==
    /\ rx.on
    /\ rx.disconnect_btn
    /\ rx.disconnects < MaxDisconnects
    /\ rx' = [rx EXCEPT
                !.disconnects = rx.disconnects + 1,
                !.is_playing = FALSE,
                !.closing = IF rx.pc # None THEN rx.closing \cup {rx.pc}
                            ELSE rx.closing,
                !.pc = None,
                !.connect_btn = TRUE,
                !.disconnect_btn = FALSE,
                !.disconnected = TRUE]
    /\ RxKeep

\* The pc.close() that disconnect scheduled runs on the asyncio thread.
RxCloseRun(c) ==
    /\ rx.on
    /\ c \in rx.closing
    /\ rx' = [rx EXCEPT !.closing = rx.closing \ {c}, !.conns[c] = "closed"]
    /\ RxKeep

\* The Tk thread runs the first callback queued with root.after:
\* _update_connection_status(True), _update_connection_status(False, msg) or
\* _update_video_display(frame).
RxGuiRun ==
    /\ rx.on
    /\ rx.gui # <<>>
    /\ rx' = [rx EXCEPT
                !.gui = Tail(rx.gui),
                !.connect_btn = CASE Head(rx.gui) = "status_ok" -> FALSE
                                  [] Head(rx.gui) = "status_fail" -> TRUE
                                  [] OTHER -> @,
                !.disconnect_btn = CASE Head(rx.gui) = "status_ok" -> TRUE
                                     [] Head(rx.gui) = "status_fail" -> FALSE
                                     [] OTHER -> @]
    /\ RxKeep

ReceiverNext ==
    \/ RxClickConnect
    \/ \E k \in RxTasks, ok \in BOOLEAN : RxConnectStart(k, ok)
    \/ \E k \in RxTasks, ok \in BOOLEAN : RxCreateOfferDone(k, ok)
    \/ \E k \in RxTasks, ok \in BOOLEAN : RxSetLocalDone(k, ok)
    \/ \E k \in RxTasks, o \in PostOutcomes : RxPostDone(k, o)
    \/ \E k \in RxTasks, ok \in BOOLEAN : RxSetRemoteDone(k, ok)
    \/ \E c \in RxConns, ok \in BOOLEAN : RxRecvFrame(c, ok)
    \/ \E c \in RxConns : RxRecvError(c)
    \/ RxDisconnect
    \/ \E c \in RxConns : RxCloseRun(c)
    \/ RxGuiRun

ReceiverSpec == ReceiverInit /\ [][ReceiverNext]_allVars


----------------------------------------------------------------------------
\* Claims

\* C1: once a begin_session (_create_new_connection) has returned on an
\* instance whose previous begin_session had set up a session, exactly one
\* connection is live: the previous connection has been closed, self.pc is the
\* new, unclosed connection, and the lifecycle references no closed connection.
C1_OneLiveSession ==
    \A p \in Handlers :
        ( /\ pos[p] = "setRemote"
          /\ resetLog.phase = "done"
          /\ resetLog.startPc # None
          /\ conns[resetLog.startPc].track = "sendonly" )
        => /\ pc = localPc[p]
           /\ conns[pc].state = "open"
           /\ conns[resetLog.startPc].state = "closed"
           /\ {c \in Conns : conns[c].state \in {"open", "closing"}} = {pc}

\* C2: two POST /offer requests never overlap past the lock: a second one
\* waits until the first has returned its response, and the connection an
\* offer request is negotiating on stays open while it does.
C2_OffersSerialized ==
    LET InOffer(p) == pos[p] \in {"json", "close", "sleep", "setRemote",
                                   "createAnswer", "setLocal"}
    IN  /\ \A p, q \in Handlers : InOffer(p) /\ InOffer(q) => p = q
        /\ \A p \in Handlers : InOffer(p) => lockHolder = p
        /\ \A p \in Handlers :
              pos[p] \in {"setRemote", "createAnswer", "setLocal"}
              => conns[localPc[p]].state = "open"

\* One offer request waits for the lock while another negotiates.
C2_Witness ==
    \E p, q \in Handlers :
        pos[p] = "waitlock" /\ pos[q] \in {"setRemote", "createAnswer", "setLocal"}

\* C3: at most one request is between its first and its last access to
\* self.pc, and a POST /answer applies its remote description only to a
\* connection that is open and still the one self.pc refers to.
C3_AllSerialized ==
    /\ Cardinality({p \in Handlers :
                      pos[p] \in {"close", "sleep", "setRemote", "createAnswer",
                                  "setLocal", "ansSetRemote"}}) <= 1
    /\ \A p \in Handlers :
          pos[p] = "ansSetRemote"
          => conns[localPc[p]].state = "open" /\ pc = localPc[p]

\* C4: whenever a connection has been allocated (the first negotiation step on
\* a session), the reset of every earlier session has completed: its close()
\* call has finished and the grace delay after it has elapsed.
C4_NegotiationAfterReset ==
    \A c \in Conns :
        conns[c].state # "unalloc"
        => \A d \in Conns : d < c => resetOf[d] = "done"

\* A second session is being negotiated after the first one's reset.
C4_Witness ==
    \E p \in Handlers :
        /\ pos[p] \in {"setRemote", "createAnswer", "setLocal"}
        /\ localPc[p] > 1
        /\ resetOf[1] = "done"

\* C5: in every state a request can observe, self.pc is None or a connection
\* with its observers registered and its send-only video track attached.
C5_NoPartialSession ==
    pc = None
    \/ ( /\ conns[pc].observers
         /\ conns[pc].track = "sendonly"
         /\ video_track = pc )

\* C6: every _reset_connection call completes without raising and ends with
\* self.pc = None and self.video_track = None, also when close() raised; with
\* no session at its start it leaves pc and video_track as they were.
C6_ResetSafe ==
    resetLog.phase = "done"
    => /\ ~resetLog.raised
       /\ resetLog.endPc = None
       /\ resetLog.endTrack = None
       /\ resetLog.startPc = None
          => /\ resetLog.endPc = resetLog.startPc
             /\ resetLog.endTrack = resetLog.startTrack
             /\ ~resetLog.closeRaised

\* A reset of a live session whose close() raised has completed.
C6_Witness ==
    /\ resetLog.phase = "done"
    /\ resetLog.startPc # None
    /\ resetLog.closeRaised

\* C7: when setRemoteDescription, createAnswer or setLocalDescription fails
\* during POST /offer, the response is a failure and, as it is returned, the
\* publisher holds no session handle and no frame source.
C7_AutoResetOnNegotiationError ==
    ( out.route = "offer" /\ out.cause \in {"setRemote", "createAnswer", "setLocal"} )
    => /\ out.status = 500
       /\ pc = None
       /\ video_track = None

\* C8: as a POST /offer without sdp returns, the lifecycle holds no session or
\* a fully set-up one, and the handler has released the lock (so that the next
\* POST /offer can enter).
C8_MissingSdpLeavesNoHalfSession ==
    ( out.route = "offer" /\ out.cause = "missing_sdp" )
    => /\ out.status = 500
       /\ lockHolder # out.handler
       /\ \/ pc = None
          \/ conns[pc].observers /\ conns[pc].track = "sendonly"

\* C9: a failing POST /offer is answered 500 with a JSON body {error: string},
\* a successful one 200 with a JSON body {sdp, type: "answer"}.
C9_OfferResponses ==
    out.route = "offer"
    => /\ out.cause # "none"
          => /\ out.status = 500
             /\ out.ctype = "application/json"
             /\ out.body = "json{error}"
       /\ out.cause = "none"
          => /\ out.status = 200
             /\ out.ctype = "application/json"
             /\ out.body = "json{sdp,type:answer}"

\* C10: a POST /answer handled while no session exists is not reported as a
\* success, and leaves self.pc and self.video_track as they were (None).
C10_AnswerWithoutSession ==
    ( out.route = "answer" /\ out.cause = "no_session" )
    => /\ out.status # 200
       /\ pc = None
       /\ video_track = None

\* C11: when RTCPeerConnection() raises inside begin_session, the request is
\* answered with a failure, the lifecycle is Idle (no session handle, no frame
\* source, lock released, handler free), and a later request can begin a
\* session.
C11_AllocFailureLeavesIdle ==
    ( out.route = "offer" /\ out.cause = "alloc" )
    => /\ out.status = 500
       /\ pc = None
       /\ video_track = None
       /\ lockHolder # out.handler
       /\ pos[out.handler] = "idle"

\* After an allocation failure, a later begin_session has set up a session.
C11_Witness ==
    /\ allocFailed
    /\ \E p \in Handlers :
          /\ pos[p] = "setRemote"
          /\ pc = localPc[p]
          /\ conns[pc].state = "open"
          /\ conns[pc].track = "sendonly"

\* C12: for an asset with at least one frame, every index recv seeks to and
\* the index of the frame it emits are in [0, frame_count), and recv restarts
\* the cycle (start clock set to now, index 0) exactly when
\* floor(elapsed * fps) >= frame_count.
C12_FrameIndexInRange ==
    ( fs.on /\ fs.phase = "ready" /\ fs.frame_count >= 1
      /\ fs.last.result # "none" )
    => /\ \A i \in 1..Len(fs.last.seeks) :
             fs.last.seeks[i] \in 0..(fs.frame_count - 1)
       /\ fs.last.target \in 0..(fs.frame_count - 1)
       /\ fs.last.index \in 0..(fs.frame_count - 1)
       /\ fs.last.restarted
          <=> ((fs.last.elapsed * fs.fps) \div TicksPerSecond >= fs.frame_count)
       /\ fs.last.restarted
          => fs.start_time = fs.last.clock /\ fs.last.target = 0
       /\ ~fs.last.restarted => fs.start_time = fs.last.start

\* A cycle of an asset of several frames restarts after time has passed.
C12_Witness ==
    /\ fs.on /\ fs.phase = "ready" /\ fs.frame_count >= 2
    /\ fs.last.result = "frame"
    /\ fs.last.restarted
    /\ fs.last.elapsed > 0

\* C13: the timestamp of an emitted frame is not below that of the frame
\* emitted before it in the same cycle (since the last loop restart), and the
\* frame emitted by a call that restarts the loop has timestamp 0.
C13_PtsMonotone ==
    ( fs.on /\ fs.last.result = "frame" )
    => /\ fs.last.restarted => fs.last.pts = 0
       /\ (~fs.last.restarted /\ fs.last.prevPts # NoTime)
          => fs.last.pts >= fs.last.prevPts

\* Within one cycle a later frame carries a larger timestamp.
C13_Witness ==
    /\ fs.on /\ fs.last.result = "frame"
    /\ ~fs.last.restarted
    /\ fs.last.prevPts # NoTime
    /\ fs.last.pts > fs.last.prevPts

\* C14: recv never raises, whatever reads of the decoder fail.
C14_RecvNeverRaises ==
    fs.on => fs.last.result # "raised"

\* C15: construction from an asset whose frame rate is 0 fails with the
\* invalid-asset error (ValueError, as for a file that cannot be opened), not
\* with a division fault, and no frame source with frame rate 0 results.
C15_ZeroFpsIsInvalidAsset ==
    fs.on => /\ fs.phase = "failed" => fs.err = "ValueError"
             /\ fs.phase = "ready" => fs.fps > 0

\* C16: for every mode, a call of the transform with an offset outside
\* [MinOffset, MaxOffset] is rejected with InvalidParamError and produces no
\* frame.
C16_OutOfRangeOffsetRejected ==
    ( /\ tf.on
      /\ tf.res # NoResult
      /\ (tf.offset < MinOffset \/ tf.offset > MaxOffset) )
    => /\ tf.res.status = "raised"
       /\ tf.res.err = "InvalidParamError"

SideBySideOther(mode) ==
    IF mode = "side_by_side_cross_eye" THEN "side_by_side_parallel"
    ELSE "side_by_side_cross_eye"

\* C17: for the same frame and offset, the cross-eye call and the parallel
\* call either both raise or both return a picture of the frame's shape, and
\* the left half of each picture is the right half of the other.
C17_CrossEyeParallelSwapped ==
    ( /\ tf.on
      /\ tf.res # NoResult
      /\ tf.mode \in {"side_by_side_cross_eye", "side_by_side_parallel"} )
    => LET a  == tf.res
           b  == Process3dFrame(tf.frame, SideBySideOther(tf.mode), tf.offset)
           hw == tf.frame.width \div 2
       IN  /\ a.status = b.status
           /\ a.status = "frame"
              => /\ a.width = b.width /\ a.height = b.height
                 /\ a.new_height = b.new_height /\ a.y_offset = b.y_offset
                 /\ \A y \in 1..a.height : \A x \in 1..hw :
                       /\ a.px[y][x] = b.px[y][hw + x]
                       /\ a.px[y][hw + x] = b.px[y][x]

\* A cross-eye picture whose two halves differ has been returned for a
\* positive offset.
C17_Witness ==
    /\ tf.on
    /\ tf.mode = "side_by_side_cross_eye"
    /\ tf.offset > 0
    /\ tf.res.status = "frame"
    /\ \E y \in 1..tf.res.height : \E x \in 1..(tf.res.width \div 2) :
          /\ tf.res.px[y][x] # Black
          /\ tf.res.px[y][x] # tf.res.px[y][tf.res.width \div 2 + x]

AnaglyphOther(mode) ==
    IF mode = "anaglyph_red_cyan" THEN "anaglyph_green_magenta"
    ELSE "anaglyph_red_cyan"

\* C18: for the same frame and offset, the red-cyan picture and the
\* green-magenta picture are each other with the red and the green channel
\* exchanged; the blue channel is the same in both.
C18_AnaglyphsSwapRedGreen ==
    ( /\ tf.on
      /\ tf.res # NoResult
      /\ tf.mode \in {"anaglyph_red_cyan", "anaglyph_green_magenta"} )
    => LET a == tf.res
           b == Process3dFrame(tf.frame, AnaglyphOther(tf.mode), tf.offset)
       IN  /\ a.status = "frame" /\ b.status = "frame"
           /\ a.width = b.width /\ a.height = b.height
           /\ \A y \in 1..a.height : \A x \in 1..a.width :
                 /\ a.px[y][x][1] = b.px[y][x][2]
                 /\ a.px[y][x][2] = b.px[y][x][1]
                 /\ a.px[y][x][3] = b.px[y][x][3]

\* A red-cyan picture in which the shift shows: a pixel whose red differs
\* from its green and whose blue is not zero.
C18_Witness ==
    /\ tf.on
    /\ tf.mode = "anaglyph_red_cyan"
    /\ tf.offset > 0
    /\ tf.res.status = "frame"
    /\ \E y \in 1..tf.res.height : \E x \in 1..tf.res.width :
          /\ tf.res.px[y][x][1] # tf.res.px[y][x][2]
          /\ tf.res.px[y][x][3] # 0

\* The cross-eye call on a 640x480 frame with offset 10 has been made.
C19_Case ==
    /\ tf.on
    /\ tf.res # NoResult
    /\ tf.mode = "side_by_side_cross_eye"
    /\ tf.frame.width = 640 /\ tf.frame.height = 480
    /\ tf.offset = 10

\* C19 as stated: the content is 243 rows high in a 640x480 output, with 118
\* black rows above it and 118 black rows below it.
C19_EqualMargins ==
    C19_Case
    => /\ tf.res.status = "frame"
       /\ tf.res.width = 640 /\ tf.res.height = 480
       /\ tf.res.new_height = 243
       /\ tf.res.y_offset = 118
       /\ tf.res.height - (tf.res.y_offset + tf.res.new_height) = 118

\* C19, amended: the content is 243 rows high in a 640x480 output, with 118
\* black rows above it and 119 black rows below it.
C19_Margins118Above119Below ==
    C19_Case
    => /\ tf.res.status = "frame"
       /\ tf.res.width = 640 /\ tf.res.height = 480
       /\ tf.res.new_height = 243
       /\ tf.res.y_offset = 118
       /\ tf.res.height - (tf.res.y_offset + tf.res.new_height) = 119

C19_Witness ==
    /\ C19_Case
    /\ tf.res.status = "frame"
    /\ tf.res.new_height < tf.res.height

\* C20: when the read at the target index fails, the call restarts the cycle:
\* the start clock is set to now, and the frame emitted has index 0 and
\* timestamp 0.
C20_DecodeFailureRestarts ==
    ( fs.on /\ fs.last.result = "frame" /\ fs.last.readFailed )
    => /\ fs.last.index = 0
       /\ fs.last.pts = 0
       /\ fs.start_time = fs.last.clock

\* The half of the returned picture that starts at column first shows the
\* given crop of the frame, resized, at the content rows.
HalfShows(first, crop) ==
    \A y \in 0..(tf.res.new_height - 1) :
       \A x \in 0..(tf.frame.width \div 2 - 1) :
          tf.res.px[tf.res.y_offset + y + 1][first + x + 1]
             = PixelAt(tf.frame,
                       ResizeSource(tf.frame.height, tf.res.new_height, y),
                       crop.x0 + ResizeSource(crop.width,
                                              tf.frame.width \div 2, x))

\* A parallel call has returned a picture.
C21_Case ==
    /\ tf.on
    /\ tf.mode = "side_by_side_parallel"
    /\ tf.res.status = "frame"

\* C21 as stated: in parallel mode the left half of the output shows the crop
\* trimmed by offset columns at the left edge, and the right half the crop
\* trimmed at the right edge.
C21_ParallelLeftTrimmedLeft ==
    C21_Case
    => /\ HalfShows(0, TrimLeft(tf.frame.width, tf.offset))
       /\ HalfShows(tf.frame.width \div 2,
                    TrimRight(tf.frame.width, tf.offset))

\* C21, amended: in parallel mode the left half of the output shows the crop
\* trimmed by offset columns at the right edge, and the right half the crop
\* trimmed at the left edge.
C21_ParallelRightTrimmedLeft ==
    C21_Case
    => /\ HalfShows(0, TrimRight(tf.frame.width, tf.offset))
       /\ HalfShows(tf.frame.width \div 2,
                    TrimLeft(tf.frame.width, tf.offset))

\* A parallel picture whose two halves differ, with rows left black.
C21_Witness ==
    /\ C21_Case
    /\ tf.offset > 0
    /\ tf.res.new_height < tf.res.height
    /\ \E x \in 1..(tf.res.width \div 2) :
          tf.res.px[tf.res.y_offset + 1][x]
             # tf.res.px[tf.res.y_offset + 1][tf.res.width \div 2 + x]

\* C23: for every frame size and every offset in [MinOffset, MaxOffset], the
\* cross-eye and the parallel call return a frame of the input's width and
\* height, with the resized content inside it: y_offset >= 0 and
\* y_offset + new_height <= height.
C23_SideBySideFits ==
    ( /\ tf.on
      /\ tf.res # NoResult
      /\ tf.mode \in {"side_by_side_cross_eye", "side_by_side_parallel"}
      /\ tf.offset >= MinOffset /\ tf.offset <= MaxOffset )
    => /\ tf.res.status = "frame"
       /\ tf.res.width = tf.frame.width
       /\ tf.res.height = tf.frame.height
       /\ tf.res.new_height = NewHeight(tf.frame.width, tf.frame.height,
                                        tf.offset)
       /\ tf.res.y_offset >= 0
       /\ tf.res.y_offset + tf.res.new_height <= tf.res.height

\* C22: on the receiver, at most one connection is open with no close
\* scheduled, it is the one in self.pc, and no connection has been taken out
\* of self.pc without being closed.
C22_ReceiverOneUnclosedConnection ==
    rx.on
    => /\ \A c \in RxConns :
             (rx.conns[c] = "open" /\ c \notin rx.closing) => rx.pc = c
       /\ rx.dropped = {}

\* C24: on the receiver, no frame is queued for _update_video_display after
\* disconnect() has run and before a new connection is made.
C24_NoDisplayAfterDisconnect ==
    rx.on => ~rx.lateDisplay

\* C25: every offer request that has arrived acquires the lock, and then
\* returns a response with status 200 or 500 with the lock released.
C25_OfferEventuallyAnswered ==
    \A p \in Handlers :
       /\ (pos[p] = "waitlock") ~> (lockHolder = p)
       /\ (pos[p] \in {"waitlock", "json", "close", "sleep", "setRemote",
                       "createAnswer", "setLocal"})
          ~> ( /\ pos[p] = "idle"
               /\ lockHolder # p
               /\ out.route = "offer"
               /\ out.handler = p
               /\ out.status \in {200, 500} )

\* An offer request that had to wait has been passed the lock by the request
\* before it, which has returned its response.
C25_Witness ==
    \E p \in Handlers :
       /\ lockHolder = p
       /\ pos[p] = "json"
       /\ offers = MaxOffers
       /\ out.route = "offer"
       /\ out.handler # p

====
